---- MODULE Spec2Model ----
(***************************************************************************)
(* A model of the procedural dungeon generator of                          *)
(* src/src/utils/DungeonGenerator.ts: room placement with overlap          *)
(* checking, ordering by horizontal centre, L-shaped corridors with        *)
(* doorways, and room walls with door gaps; and of five smaller parts of   *)
(* the application: the pending errors and the recent campaigns kept in    *)
(* localStorage, the game store with its campaign of maps, the             *)
(* AutoSaveManager component and the strokes of the CanvasManager          *)
(* component.  Each part has its own specification; the others are at rest *)
(* under it.                                                               *)
(*                                                                         *)
(* Coordinates.  The source divides pixel quantities by two (room centres, *)
(* connection points, half corridor width, half door size, the             *)
(* classification threshold) and never divides a quotient again, so every  *)
(* coordinate it computes is a whole number of half pixels.  The model     *)
(* holds every length and coordinate in half pixels: Px(n) is n pixels,    *)
(* and "v / 2" of the source is the exact v \div 2 here.                   *)
(*                                                                         *)
(* Randomness.  Math.random() is an ambient source: each draw is a         *)
(* nondeterministic choice over the values Math.floor can produce.         *)
(* Drawing ids (crypto.randomUUID()), colour and stroke size carry no      *)
(* geometry and are left out of a Drawing.                                 *)
(***************************************************************************)
EXTENDS Integers, Sequences, FiniteSets

VARIABLES
  options,      \* this.options, lengths in half pixels
  rooms,        \* this.rooms
  pc,           \* position inside generate(): "place", "connect", "walls", "done"
  slot,         \* the placement loop's i (generate, line 66)
  attempts,     \* the placement loop's attempts (generate, line 67)
  corridor,     \* the connection loop's i, 1-based (generate, line 96)
  roomDoorways, \* the Map<Room, Point[]> of generate, keyed by position in rooms
  corridors,    \* the { drawings, doorways } results of createCorridor, in order
  drawings,     \* the drawings array that generate() returns
  instance,     \* which DungeonGenerator instance is running (1 or 2)
  first,        \* what the first instance returned and placed, once it is done
  generated,    \* how many times generate() has called generateRandomRoom(),
                \* tallied under SpecCount alone
  errorStorage, \* the localStorage item 'hyle_pending_errors'
  history,      \* the errors handed to storeError() so far, newest first
  called,       \* the error handler function called last, and the id it was given
  store,        \* the state of useGameStore: the active map and the campaign
  storeCalled,  \* the store action called last, and the map id it was given
  ipcRenderer,  \* whether window.ipcRenderer is there
  mounted,      \* whether AutoSaveManager is mounted
  effects,      \* how many times the effect of AutoSaveManager has run (its mounts)
  intervalId,   \* the effect run whose interval is set, 0 when none is
  isSaving,     \* the isSaving flag of each effect run
  inFlight,     \* the AUTO_SAVE invocations of each effect run not yet settled
  lastEvent,    \* what happened last to AutoSaveManager
  recentStorage, \* the localStorage item 'hyle-recent-campaigns'
  now,           \* the clock: what Date.now() answered last
  recentCalled,  \* the recent campaigns function called last, the id it was given,
                 \* how many campaigns it found and whether that id was among them
  left,          \* the map that the last switchMap call left and the active map
                 \* state it found, noted under SpecSwitch alone
  edits,         \* how many calls have edited the active map state, tallied
                 \* under SpecSwitch and SpecRegions alone
  tool,          \* the tool prop of CanvasManager, as of its last render
  isDrawing,     \* isDrawing.current
  currentLine,   \* currentLine.current
  tempLine,      \* the tempLine state: what setTempLine was given last
  seenTempLine,  \* the tempLine of the last render: what the handlers attached
                 \* to the Stage see, and what the Layer shows
  gesture,       \* the mouse: whether its button is held since a mouse-down on
                 \* the Stage, the moves since, and the tool all that while
  mouseEvent     \* the mouse event that the Stage handled last

generatorVars == <<options, rooms, pc, slot, attempts, corridor, roomDoorways,
                   corridors, drawings, instance, first, generated>>

errorVars == <<errorStorage, history, called>>

storeVars == <<store, storeCalled>>

autoSaveVars == <<ipcRenderer, mounted, effects, intervalId, isSaving, inFlight, lastEvent>>

recentVars == <<recentStorage, now, recentCalled>>

storeNotes == <<left, edits>>

canvasVars == <<tool, isDrawing, currentLine, tempLine, seenTempLine, gesture, mouseEvent>>

vars == <<generatorVars, errorVars, storeVars, autoSaveVars, recentVars, storeNotes,
          canvasVars>>

\* What the dungeon generator never touches, what the error functions never
\* touch, what the game store never touches, what AutoSaveManager never
\* touches (it calls the store), what the recent campaigns functions never
\* touch, and what CanvasManager never touches (it calls the store too).
beyondGenerator ==
  <<errorVars, storeVars, autoSaveVars, recentVars, storeNotes, canvasVars>>

beyondErrors ==
  <<generatorVars, storeVars, autoSaveVars, recentVars, storeNotes, canvasVars>>

beyondNotedStore == <<generatorVars, errorVars, autoSaveVars, recentVars, canvasVars>>

beyondStore == <<beyondNotedStore, storeNotes>>

beyondAutoSave == <<generatorVars, errorVars, recentVars, storeNotes, canvasVars>>

beyondRecent ==
  <<generatorVars, errorVars, storeVars, autoSaveVars, storeNotes, canvasVars>>

beyondCanvas == <<generatorVars, errorVars, autoSaveVars, recentVars, storeNotes>>

----------------------------------------------------------------------------
(* Bounds of the model *)

MaxNumRooms == 3           \* numRooms is 1 .. MaxNumRooms
MaxRoomCells == 2          \* minRoomSize, maxRoomSize are at most MaxRoomCells
CanvasHalfCells == 10      \* the large canvas, in half grid cells
SmallCanvasHalfCells == 2  \* the canvas too small for two rooms, in half grid cells
SmallGridPx == 1           \* the gridSize tried beside the default, in pixels
MaxGridPx == 3             \* gridSize of a lone createRoomWalls call is 1 .. MaxGridPx
MaxWallCells == 3          \* width and height in cells of its room are 1 .. MaxWallCells
MaxDoorways == 1           \* doorways handed to a lone createRoomWalls call
MaxStoreCalls == 11        \* storeError calls in a run of storeError calls alone
MaxMixedCalls == 3         \* storeError calls in a run of all the error functions
MaxTokens == 1             \* tokens on a map
MaxMounts == 3             \* mounts of AutoSaveManager
MaxNow == 3                \* the clock runs from 0 to MaxNow milliseconds
MaxOverflow == 3           \* explored regions added beyond MAX_EXPLORED_REGIONS
MaxEdits == 2              \* edits of the active map state in a run of map switches
MaxMoves == 2              \* mouse-moves handled while the button is held
MaxStrokes == 2            \* Drawings that the store holds before a mouse-down

(* Program constants *)

\* One more candidate per slot than the loop of generate() allows.
maxAttempts_oneMore == 50 + 1

maxAttempts == 50
DefaultGridSize == 50
MAX_STORED_ERRORS == 10
MAX_RECENT == 3
MAX_EXPLORED_REGIONS == 200

----------------------------------------------------------------------------
(* Arithmetic *)

Px(n) == n + n

Abs(v) == IF v < 0 THEN 0 - v ELSE v

\* The values of Math.floor(Math.random() * n), Math.random() in [0, 1):
\* 0..n-1 for positive n; for n <= 0 the product lies in (n, 0].
RandomFloor(n) == IF n > 0 THEN 0 .. (n - 1) ELSE n .. 0

Range(s) == {s[k] : k \in 1 .. Len(s)}

RECURSIVE Flatten(_)
Flatten(ss) == IF ss = <<>> THEN <<>> ELSE Head(ss) \o Flatten(Tail(ss))

\* Array.prototype.sort with comparator key(a) - key(b): a stable sort.
RECURSIVE StableSort(_, _)
StableSort(s, key) ==
  IF s = <<>> THEN <<>>
  ELSE LET rest == StableSort(SubSeq(s, 1, Len(s) - 1), key)
           e == s[Len(s)]
           n == Cardinality({k \in 1 .. Len(rest) : key[rest[k]] <= key[e]})
       IN  SubSeq(rest, 1, n) \o <<e>> \o SubSeq(rest, n + 1, Len(rest))

Point(px, py) == [x |-> px, y |-> py]

Drawing(pts) == [tool |-> "wall", points |-> pts]

----------------------------------------------------------------------------
(* Room placement *)

\* generateRandomRoom with the position left in cells (x and y not multiplied
\* by gridSize).
generateRandomRoom_unsnapped(o) ==
  LET sizes == o.minRoomSize .. o.maxRoomSize
      maxX(width) == (o.canvasWidth - width) \div o.gridSize
      maxY(height) == (o.canvasHeight - height) \div o.gridSize
      at(widthCells, heightCells) ==
        LET width == widthCells * o.gridSize
            height == heightCells * o.gridSize
        IN  { [x |-> cx, y |-> cy, width |-> width, height |-> height] :
                cx \in RandomFloor(maxX(width)), cy \in RandomFloor(maxY(height)) }
  IN  UNION { at(t[1], t[2]) : t \in sizes \X sizes }

\* The rooms generateRandomRoom() can return: one per outcome of its four
\* Math.random() draws.
generateRandomRoom(o) ==
  LET sizes == o.minRoomSize .. o.maxRoomSize
      maxX(width) == (o.canvasWidth - width) \div o.gridSize
      maxY(height) == (o.canvasHeight - height) \div o.gridSize
      at(widthCells, heightCells) ==
        LET width == widthCells * o.gridSize
            height == heightCells * o.gridSize
        IN  { [x |-> cx * o.gridSize, y |-> cy * o.gridSize,
               width |-> width, height |-> height] :
                cx \in RandomFloor(maxX(width)), cy \in RandomFloor(maxY(height)) }
  IN  UNION { at(t[1], t[2]) : t \in sizes \X sizes }

\* hasOverlap without the padding.
hasOverlap_unpadded(newRoom, rs, o) ==
  \E k \in 1 .. Len(rs) :
    /\ newRoom.x < rs[k].x + rs[k].width
    /\ newRoom.x + newRoom.width > rs[k].x
    /\ newRoom.y < rs[k].y + rs[k].height
    /\ newRoom.y + newRoom.height > rs[k].y

hasOverlap(newRoom, rs, o) ==
  LET padding == o.gridSize * 2
  IN  \E k \in 1 .. Len(rs) :
        /\ newRoom.x < rs[k].x + rs[k].width + padding
        /\ newRoom.x + newRoom.width > rs[k].x - padding
        /\ newRoom.y < rs[k].y + rs[k].height + padding
        /\ newRoom.y + newRoom.height > rs[k].y - padding

\* centerA - centerB of the comparator in generate().
centerX(room) == room.x + room.width \div 2

\* The rooms left in the order of their acceptance.
sortRooms_unsorted(rs) == rs

sortRooms(rs) == StableSort(rs, [r \in Range(rs) |-> centerX(r)])

----------------------------------------------------------------------------
(* Connection points and corridors *)

getRoomCenter(room) ==
  Point(room.x + room.width \div 2, room.y + room.height \div 2)

\* getConnectionPoint answering with the centre of room1.
getConnectionPoint_center(room1, room2) == getRoomCenter(room1)

\* getConnectionPoint taking the horizontal axis when the two deltas tie.
getConnectionPoint_horizontalTies(room1, room2) ==
  LET center1 == getRoomCenter(room1)
      center2 == getRoomCenter(room2)
      dx == center2.x - center1.x
      dy == center2.y - center1.y
  IN  IF Abs(dx) >= Abs(dy)
      THEN IF dx > 0
           THEN Point(room1.x + room1.width, room1.y + room1.height \div 2)
           ELSE Point(room1.x, room1.y + room1.height \div 2)
      ELSE IF dy > 0
           THEN Point(room1.x + room1.width \div 2, room1.y + room1.height)
           ELSE Point(room1.x + room1.width \div 2, room1.y)

getConnectionPoint(room1, room2) ==
  LET center1 == getRoomCenter(room1)
      center2 == getRoomCenter(room2)
      dx == center2.x - center1.x
      dy == center2.y - center1.y
  IN  IF Abs(dx) > Abs(dy)
      THEN IF dx > 0
           THEN Point(room1.x + room1.width, room1.y + room1.height \div 2)
           ELSE Point(room1.x, room1.y + room1.height \div 2)
      ELSE IF dy > 0
           THEN Point(room1.x + room1.width \div 2, room1.y + room1.height)
           ELSE Point(room1.x + room1.width \div 2, room1.y)

\* The connection point moved 1px into its room.
adjustedPoint_inward(p, room) ==
  LET offset == Px(1)
      isHorizontal == p.x = room.x \/ p.x = room.x + room.width
  IN  IF isHorizontal
      THEN Point(p.x + (IF p.x = room.x THEN offset ELSE 0 - offset), p.y)
      ELSE Point(p.x, p.y + (IF p.y = room.y THEN offset ELSE 0 - offset))

\* The connection point moved 1px off its room (createCorridor, lines 401-421).
adjustedPoint(p, room) ==
  LET offset == Px(1)
      isHorizontal == p.x = room.x \/ p.x = room.x + room.width
  IN  IF isHorizontal
      THEN Point(p.x + (IF p.x = room.x THEN 0 - offset ELSE offset), p.y)
      ELSE Point(p.x, p.y + (IF p.y = room.y THEN 0 - offset ELSE offset))

\* createCorridor bending at the adjusted start point, whatever the leg order.
createCorridor_bendAtStart(room1, room2, horizontalFirst, o) ==
  LET corridorWidth == o.gridSize
      half == corridorWidth \div 2
      start == getConnectionPoint(room1, room2)
      end == getConnectionPoint(room2, room1)
      adjustedStart == adjustedPoint(start, room1)
      adjustedEnd == adjustedPoint(end, room2)
      bendH == Point(adjustedStart.x, adjustedStart.y)
      bendV == Point(adjustedStart.x, adjustedStart.y)
  IN  [ doorways |-> << [room |-> room1, point |-> start],
                        [room |-> room2, point |-> end] >>,
        drawings |->
          IF horizontalFirst
          THEN << Drawing(<<adjustedStart.x, adjustedStart.y - half,
                            bendH.x, bendH.y - half>>),
                  Drawing(<<adjustedStart.x, adjustedStart.y + half,
                            bendH.x, bendH.y + half>>),
                  Drawing(<<adjustedEnd.x - half, bendH.y,
                            adjustedEnd.x - half, adjustedEnd.y>>),
                  Drawing(<<adjustedEnd.x + half, bendH.y,
                            adjustedEnd.x + half, adjustedEnd.y>>) >>
          ELSE << Drawing(<<adjustedStart.x - half, adjustedStart.y,
                            bendV.x - half, bendV.y>>),
                  Drawing(<<adjustedStart.x + half, adjustedStart.y,
                            bendV.x + half, bendV.y>>),
                  Drawing(<<bendV.x, adjustedEnd.y - half,
                            adjustedEnd.x, adjustedEnd.y - half>>),
                  Drawing(<<bendV.x, adjustedEnd.y + half,
                            adjustedEnd.x, adjustedEnd.y + half>>) >> ]

createCorridor(room1, room2, horizontalFirst, o) ==
  LET corridorWidth == o.gridSize
      half == corridorWidth \div 2
      start == getConnectionPoint(room1, room2)
      end == getConnectionPoint(room2, room1)
      adjustedStart == adjustedPoint(start, room1)
      adjustedEnd == adjustedPoint(end, room2)
      bendH == Point(adjustedEnd.x, adjustedStart.y)
      bendV == Point(adjustedStart.x, adjustedEnd.y)
  IN  [ doorways |-> << [room |-> room1, point |-> start],
                        [room |-> room2, point |-> end] >>,
        drawings |->
          IF horizontalFirst
          THEN << Drawing(<<adjustedStart.x, adjustedStart.y - half,
                            bendH.x, bendH.y - half>>),
                  Drawing(<<adjustedStart.x, adjustedStart.y + half,
                            bendH.x, bendH.y + half>>),
                  Drawing(<<adjustedEnd.x - half, bendH.y,
                            adjustedEnd.x - half, adjustedEnd.y>>),
                  Drawing(<<adjustedEnd.x + half, bendH.y,
                            adjustedEnd.x + half, adjustedEnd.y>>) >>
          ELSE << Drawing(<<adjustedStart.x - half, adjustedStart.y,
                            bendV.x - half, bendV.y>>),
                  Drawing(<<adjustedStart.x + half, adjustedStart.y,
                            bendV.x + half, bendV.y>>),
                  Drawing(<<bendV.x, adjustedEnd.y - half,
                            adjustedEnd.x, adjustedEnd.y - half>>),
                  Drawing(<<bendV.x, adjustedEnd.y + half,
                            adjustedEnd.x, adjustedEnd.y + half>>) >> ]

----------------------------------------------------------------------------
(* Room walls with door gaps *)

\* The loop of createWallSegments over the sorted doors, and the segment after
\* the last door.
RECURSIVE wallSegmentsFrom(_, _, _, _, _)
wallSegmentsFrom(current, end, sortedDoors, isVertical, doorSize) ==
  IF sortedDoors = <<>>
  THEN LET hasSegmentAfter == IF isVertical THEN current.y < end.y - Px(1)
                                            ELSE current.x < end.x - Px(1)
       IN  IF hasSegmentAfter
           THEN << Drawing(<<current.x, current.y, end.x, end.y>>) >>
           ELSE << >>
  ELSE LET door == Head(sortedDoors)
           doorStart == IF isVertical THEN Point(door.x, door.y - doorSize \div 2)
                                      ELSE Point(door.x - doorSize \div 2, door.y)
           doorEnd == IF isVertical THEN Point(door.x, door.y + doorSize \div 2)
                                    ELSE Point(door.x + doorSize \div 2, door.y)
           hasSegmentBefore == IF isVertical THEN current.y < doorStart.y - Px(1)
                                             ELSE current.x < doorStart.x - Px(1)
       IN  (IF hasSegmentBefore
            THEN << Drawing(<<current.x, current.y, doorStart.x, doorStart.y>>) >>
            ELSE << >>)
           \o wallSegmentsFrom(doorEnd, end, Tail(sortedDoors), isVertical, doorSize)

\* createWallSegments without the segment after the last door.
createWallSegments_noTail(start, end, doors, isVertical, doorSize) ==
  IF doors = <<>>
  THEN << Drawing(<<start.x, start.y, end.x, end.y>>) >>
  ELSE LET sortedDoors ==
             StableSort(doors, [d \in Range(doors) |-> IF isVertical THEN d.y ELSE d.x])
           last == sortedDoors[Len(sortedDoors)]
           stop == IF isVertical THEN Point(last.x, last.y + doorSize \div 2)
                                 ELSE Point(last.x + doorSize \div 2, last.y)
       IN  wallSegmentsFrom(start, stop, sortedDoors, isVertical, doorSize)

createWallSegments(start, end, doors, isVertical, doorSize) ==
  IF doors = <<>>
  THEN << Drawing(<<start.x, start.y, end.x, end.y>>) >>
  ELSE LET sortedDoors ==
             StableSort(doors, [d \in Range(doors) |-> IF isVertical THEN d.y ELSE d.x])
       IN  wallSegmentsFrom(start, end, sortedDoors, isVertical, doorSize)

\* The rectangle without its closing point.
closedRectangle_open(room) ==
  Drawing(<<room.x, room.y, room.x + room.width, room.y,
            room.x + room.width, room.y + room.height, room.x, room.y + room.height>>)

\* The Drawing of a room without doorways (createRoomWalls, lines 178-194).
closedRectangle(room) ==
  Drawing(<<room.x, room.y, room.x + room.width, room.y,
            room.x + room.width, room.y + room.height, room.x, room.y + room.height,
            room.x, room.y>>)

createRoomWalls(room, doorways, o) ==
  LET x == room.x
      y == room.y
      width == room.width
      height == room.height
      doorSize == o.gridSize
      threshold == o.gridSize \div 2
      isTop(d) == Abs(d.y - y) < threshold
      isBottom(d) == Abs(d.y - (y + height)) < threshold
      isLeft(d) == Abs(d.x - x) < threshold
      isRight(d) == Abs(d.x - (x + width)) < threshold
  IN  IF doorways = <<>>
      THEN << closedRectangle(room) >>
      ELSE createWallSegments(Point(x, y), Point(x + width, y),
                              SelectSeq(doorways, isTop), FALSE, doorSize)
           \o createWallSegments(Point(x + width, y), Point(x + width, y + height),
                                 SelectSeq(doorways, isRight), TRUE, doorSize)
           \o createWallSegments(Point(x + width, y + height), Point(x, y + height),
                                 SelectSeq(doorways, isBottom), FALSE, doorSize)
           \o createWallSegments(Point(x, y + height), Point(x, y),
                                 SelectSeq(doorways, isLeft), TRUE, doorSize)

----------------------------------------------------------------------------
(* The configurations and the constructor *)

\* gridSize values in pixels.
GridSizesPx == {SmallGridPx, DefaultGridSize}

\* Canvas extents for a grid of g pixels, in half pixels: half a cell is g
\* half pixels.  The canvas is square; the small one is too small to hold two
\* rooms, or even one.
CanvasSizes(g) == {CanvasHalfCells * g, SmallCanvasHalfCells * g}

\* new DungeonGenerator(options): the fields the constructor copies.  A seed
\* is not among them.
ConfigurationsOf(g) ==
  { [numRooms |-> t[1], minRoomSize |-> t[2], maxRoomSize |-> MaxRoomCells,
     gridSize |-> Px(g), canvasWidth |-> t[3], canvasHeight |-> t[3]] :
      t \in (1 .. MaxNumRooms) \X (1 .. MaxRoomCells) \X CanvasSizes(g) }

Configurations == UNION { ConfigurationsOf(g) : g \in GridSizesPx }

----------------------------------------------------------------------------
(* The parts of the application that a specification leaves at rest *)

\* No pending error stored and no error handler function called.
ErrorsIdle ==
  /\ errorStorage = [kind |-> "none", value |-> << >>]
  /\ history = << >>
  /\ called = [name |-> "none", id |-> "none", found |-> "none"]

\* No DungeonGenerator built.
GeneratorIdle ==
  /\ options = << >>
  /\ rooms = << >>
  /\ pc = "idle"
  /\ slot = 0
  /\ attempts = 0
  /\ corridor = 1
  /\ roomDoorways = << >>
  /\ corridors = << >>
  /\ drawings = << >>
  /\ instance = 1
  /\ first = << >>
  /\ generated = 0

\* The game store not created.
StoreIdle ==
  /\ store = << >>
  /\ storeCalled = [name |-> "none", mapId |-> "none"]

\* AutoSaveManager not mounted.
AutoSaveIdle ==
  /\ ipcRenderer = FALSE
  /\ mounted = FALSE
  /\ effects = 0
  /\ intervalId = 0
  /\ isSaving = << >>
  /\ inFlight = << >>
  /\ lastEvent = "none"

\* No recent campaign stored and no recent campaigns function called.
RecentIdle ==
  /\ recentStorage = [kind |-> "none", value |-> << >>]
  /\ now = 0
  /\ recentCalled = [name |-> "none", id |-> "none", found |-> 0, known |-> FALSE]

\* No switchMap call noted and no edit tallied.
NotesIdle ==
  /\ left = [from |-> "none", to |-> "none", active |-> << >>]
  /\ edits = 0

\* CanvasManager not rendered.
CanvasIdle ==
  /\ tool = "none"
  /\ isDrawing = FALSE
  /\ currentLine = [tool |-> "none", points |-> << >>, color |-> "", size |-> 0]
  /\ tempLine = [tool |-> "none", points |-> << >>, color |-> "", size |-> 0]
  /\ seenTempLine = [tool |-> "none", points |-> << >>, color |-> "", size |-> 0]
  /\ gesture = [held |-> FALSE, moves |-> 0, tool |-> "none"]
  /\ mouseEvent = "none"

OutsideGeneratorIdle ==
  ErrorsIdle /\ StoreIdle /\ AutoSaveIdle /\ RecentIdle /\ NotesIdle /\ CanvasIdle

OutsideErrorsIdle ==
  GeneratorIdle /\ StoreIdle /\ AutoSaveIdle /\ RecentIdle /\ NotesIdle /\ CanvasIdle

OutsideStoreIdle ==
  GeneratorIdle /\ ErrorsIdle /\ AutoSaveIdle /\ RecentIdle /\ NotesIdle /\ CanvasIdle

OutsideAutoSaveIdle ==
  GeneratorIdle /\ ErrorsIdle /\ RecentIdle /\ NotesIdle /\ CanvasIdle

OutsideRecentIdle ==
  GeneratorIdle /\ ErrorsIdle /\ StoreIdle /\ AutoSaveIdle /\ NotesIdle /\ CanvasIdle

OutsideCanvasIdle == GeneratorIdle /\ ErrorsIdle /\ AutoSaveIdle /\ RecentIdle /\ NotesIdle

----------------------------------------------------------------------------
(* generate() *)

Init ==
  /\ options \in Configurations
  /\ rooms = << >>
  /\ pc = "place"
  /\ slot = 0
  /\ attempts = 0
  /\ corridor = 1
  /\ roomDoorways = << >>
  /\ corridors = << >>
  /\ drawings = << >>
  /\ instance = 1
  /\ first = << >>
  /\ generated = 0
  /\ OutsideGeneratorIdle

\* What one pass of the while loop of generate() (lines 70-79) can draw: a
\* room it accepts, or some room it rejects (a rejected room is dropped, so
\* which one it was leaves no trace).
Rejected == [x |-> 0, y |-> 0, width |-> 0, height |-> 0]

accepts(room, rs, o) == Len(rs) = 0 \/ ~hasOverlap(room, rs, o)

placementDraws(rs, o) ==
  LET candidates == generateRandomRoom(o)
      accepted == {room \in candidates : accepts(room, rs, o)}
  IN  accepted \cup (IF accepted = candidates THEN {} ELSE {Rejected})

\* The pass that backtracks: when the last candidate of a slot is rejected it
\* gives up the room accepted before.
PlaceRoomPass_backtracking ==
  /\ pc = "place"
  /\ \E room \in placementDraws(rooms, options) :
       LET accepted == room # Rejected
           slotDone == accepted \/ attempts + 1 >= maxAttempts
           placed == IF accepted THEN Append(rooms, room)
                     ELSE IF slotDone THEN SubSeq(rooms, 1, Len(rooms) - 1) ELSE rooms
           nextSlot == IF slotDone THEN slot + 1 ELSE slot
           sorted == sortRooms(placed)
       IN  /\ slot' = nextSlot
           /\ attempts' = IF slotDone THEN 0 ELSE attempts + 1
           /\ IF nextSlot < options.numRooms
              THEN /\ rooms' = placed
                   /\ pc' = "place"
                   /\ roomDoorways' = roomDoorways
              ELSE /\ rooms' = sorted
                   /\ pc' = IF Len(sorted) > 1 THEN "connect" ELSE "walls"
                   /\ roomDoorways' = [k \in 1 .. Len(sorted) |-> << >>]
  /\ UNCHANGED <<options, corridor, corridors, drawings, instance, first, beyondGenerator>>

\* One pass of the while loop of generate() (lines 70-79), with what follows
\* the for loop when this pass ends it: the sort and the empty doorway lists
\* (lines 82-93).
PlaceRoomPass ==
  /\ pc = "place"
  /\ \E room \in placementDraws(rooms, options) :
       LET accepted == room # Rejected
           placed == IF accepted THEN Append(rooms, room) ELSE rooms
           slotDone == accepted \/ attempts + 1 >= maxAttempts
           nextSlot == IF slotDone THEN slot + 1 ELSE slot
           sorted == sortRooms(placed)
       IN  /\ slot' = nextSlot
           /\ attempts' = IF slotDone THEN 0 ELSE attempts + 1
           /\ IF nextSlot < options.numRooms
              THEN /\ rooms' = placed
                   /\ pc' = "place"
                   /\ roomDoorways' = roomDoorways
              ELSE /\ rooms' = sorted
                   /\ pc' = IF Len(sorted) > 1 THEN "connect" ELSE "walls"
                   /\ roomDoorways' = [k \in 1 .. Len(sorted) |-> << >>]
  /\ UNCHANGED <<options, corridor, corridors, drawings, instance, first, beyondGenerator>>

\* The pass, its call of generateRandomRoom() not tallied.
PlaceRoom == PlaceRoomPass /\ UNCHANGED generated

\* One pass of the connection loop of generate() (lines 96-111).
ConnectRooms ==
  /\ pc = "connect"
  /\ \E horizontalFirst \in BOOLEAN :
       LET made == createCorridor(rooms[corridor], rooms[corridor + 1],
                                  horizontalFirst, options)
       IN  /\ corridors' = Append(corridors, made)
           /\ drawings' = drawings \o made.drawings
           /\ roomDoorways' =
                [roomDoorways EXCEPT
                   ![corridor] = Append(@, made.doorways[1].point),
                   ![corridor + 1] = Append(@, made.doorways[2].point)]
  /\ corridor' = corridor + 1
  /\ pc' = IF corridor + 1 < Len(rooms) THEN "connect" ELSE "walls"
  /\ UNCHANGED <<options, rooms, slot, attempts, instance, first, generated,
                 beyondGenerator>>

\* The room wall loop of generate() (lines 114-118) and its return.
DrawRoomWalls ==
  /\ pc = "walls"
  /\ drawings' = drawings \o
       Flatten([k \in 1 .. Len(rooms) |->
                  createRoomWalls(rooms[k], roomDoorways[k], options)])
  /\ pc' = "done"
  /\ UNCHANGED <<options, rooms, slot, attempts, corridor, roomDoorways,
                 corridors, instance, first, generated, beyondGenerator>>

Next == PlaceRoom \/ ConnectRooms \/ DrawRoomWalls

Spec == Init /\ [][Next]_vars

\* What generate() hands back is the drawings array alone (lines 61 and 120):
\* the class builds no Door, so the doors of its result are none.
doors == << >>

----------------------------------------------------------------------------
(* Two instances built from the same configuration *)

\* A second DungeonGenerator is built from the configuration of the first,
\* once the first has returned, and runs its own generate().
SecondInstance ==
  /\ pc = "done"
  /\ instance = 1
  /\ first' = [rooms |-> rooms, drawings |-> drawings, doors |-> doors]
  /\ instance' = 2
  /\ rooms' = << >>
  /\ pc' = "place"
  /\ slot' = 0
  /\ attempts' = 0
  /\ corridor' = 1
  /\ roomDoorways' = << >>
  /\ corridors' = << >>
  /\ drawings' = << >>
  /\ UNCHANGED <<options, generated, beyondGenerator>>

\* The configurations tried twice: two one-cell rooms asked for on a canvas one
\* cell high, so that the rooms, when both are placed, stand side by side.
PairConfigurations ==
  { [numRooms |-> 2, minRoomSize |-> 1, maxRoomSize |-> 1, gridSize |-> Px(g),
     canvasWidth |-> CanvasHalfCells * g, canvasHeight |-> SmallCanvasHalfCells * g] :
      g \in GridSizesPx }

InitPair ==
  /\ options \in PairConfigurations
  /\ rooms = << >>
  /\ pc = "place"
  /\ slot = 0
  /\ attempts = 0
  /\ corridor = 1
  /\ roomDoorways = << >>
  /\ corridors = << >>
  /\ drawings = << >>
  /\ instance = 1
  /\ first = << >>
  /\ generated = 0
  /\ OutsideGeneratorIdle

NextPair == Next \/ SecondInstance

SpecPair == InitPair /\ [][NextPair]_vars

----------------------------------------------------------------------------
(* generate() with its calls of generateRandomRoom() tallied *)

\* One-cell rooms asked for on a canvas one cell high and wide enough for two
\* of them, so that a slot after the first can use up all its candidates.
CountConfigurations ==
  { [numRooms |-> n, minRoomSize |-> 1, maxRoomSize |-> 1, gridSize |-> Px(g),
     canvasWidth |-> CanvasHalfCells * g, canvasHeight |-> SmallCanvasHalfCells * g] :
      n \in 1 .. MaxNumRooms, g \in GridSizesPx }

InitCount ==
  /\ options \in CountConfigurations
  /\ rooms = << >>
  /\ pc = "place"
  /\ slot = 0
  /\ attempts = 0
  /\ corridor = 1
  /\ roomDoorways = << >>
  /\ corridors = << >>
  /\ drawings = << >>
  /\ instance = 1
  /\ first = << >>
  /\ generated = 0
  /\ OutsideGeneratorIdle

\* The pass, its call of generateRandomRoom() (line 71) tallied.
PlaceRoomCounted == PlaceRoomPass /\ generated' = generated + 1

NextCount == PlaceRoomCounted \/ ConnectRooms \/ DrawRoomWalls

\* generate() is synchronous and has no suspension point: a step that can be
\* taken is taken.
SpecCount == InitCount /\ [][NextCount]_vars /\ WF_vars(NextCount)

----------------------------------------------------------------------------
(* createRoomWalls on its own: one room and the doorways handed to it *)

WallRooms(g) ==
  { [x |-> Px(g), y |-> 2 * Px(g), width |-> t[1] * Px(g), height |-> t[2] * Px(g)] :
      t \in (1 .. MaxWallCells) \X (1 .. MaxWallCells) }

\* The points of a room's four edges, half pixel by half pixel.
BoundaryPoints(room) ==
  { Point(px, py) : px \in room.x .. room.x + room.width,
                    py \in {room.y, room.y + room.height} }
  \cup { Point(px, py) : px \in {room.x, room.x + room.width},
                         py \in room.y .. room.y + room.height }

DoorwayLists(room) ==
  UNION { [1 .. k -> BoundaryPoints(room)] : k \in 0 .. MaxDoorways }

InitWalls ==
  /\ \E g \in 1 .. MaxGridPx :
       /\ options = [numRooms |-> 1, minRoomSize |-> 1, maxRoomSize |-> MaxWallCells,
                     gridSize |-> Px(g), canvasWidth |-> CanvasHalfCells * g,
                     canvasHeight |-> CanvasHalfCells * g]
       /\ \E room \in WallRooms(g) :
            /\ rooms = << room >>
            /\ \E given \in DoorwayLists(room) : roomDoorways = << given >>
  /\ pc = "walls"
  /\ slot = 1
  /\ attempts = 0
  /\ corridor = 1
  /\ corridors = << >>
  /\ drawings = << >>
  /\ instance = 1
  /\ first = << >>
  /\ generated = 0
  /\ OutsideGeneratorIdle

SpecWalls == InitWalls /\ [][DrawRoomWalls]_vars

----------------------------------------------------------------------------
(* The pending errors kept in localStorage (src/unnamed/part_002) *)

\* A localStorage item is absent (getItem answers null), or holds the JSON text
\* of a value, or holds text that is not JSON.  localStorage itself works:
\* getItem, setItem and removeItem do not throw.
NoItem == [kind |-> "none", value |-> << >>]

InvalidJSON == [kind |-> "garbage", value |-> << >>]

JSONstringify(v) == [kind |-> "json", value |-> v]

\* JSON.parse: the value of a JSON text; it throws on any other text.
JSONparse(text) ==
  IF text.kind = "json" THEN [threw |-> FALSE, value |-> text.value]
  ELSE [threw |-> TRUE, value |-> << >>]

\* Array.prototype.slice(0, n).
slice(s, n) == SubSeq(s, 1, IF Len(s) < n THEN Len(s) ELSE n)

\* A StoredError: its id and its reported flag (timestamp, sanitizedError,
\* reportBody and source are carried along unread).
ErrorIds == {"err_1", "err_2"}

NewErrors == { [id |-> i, reported |-> FALSE] : i \in ErrorIds }

getStoredErrors(stored) ==
  IF stored.kind # "none"
  THEN LET parsed == JSONparse(stored)
       IN  IF parsed.threw THEN << >> ELSE parsed.value
  ELSE << >>

\* storeError pushing the new error at the end.
storeError_appending(error, stored) ==
  LET errors == getStoredErrors(stored)
  IN  JSONstringify(slice(Append(errors, error), MAX_STORED_ERRORS))

\* storeError parsing the item itself: a parse failure lands in its catch and
\* nothing is stored.
storeError_unparsed(error, stored) ==
  IF stored.kind = "garbage" THEN stored
  ELSE JSONstringify(slice(<<error>> \o getStoredErrors(stored), MAX_STORED_ERRORS))

\* The item that storeError(error) writes.
storeError(error, stored) ==
  LET errors == getStoredErrors(stored)
      trimmedErrors == slice(<<error>> \o errors, MAX_STORED_ERRORS)
  IN  JSONstringify(trimmedErrors)

\* markErrorReported marking every stored error.
markErrorReported_all(errorId, stored) ==
  LET errors == getStoredErrors(stored)
  IN  JSONstringify([k \in DOMAIN errors |-> [errors[k] EXCEPT !.reported = TRUE]])

\* The item that markErrorReported(errorId) writes.
markErrorReported(errorId, stored) ==
  LET errors == getStoredErrors(stored)
      updated == [k \in DOMAIN errors |->
                    IF errors[k].id = errorId
                    THEN [errors[k] EXCEPT !.reported = TRUE] ELSE errors[k]]
  IN  JSONstringify(updated)

\* The item that clearReportedErrors() writes.
clearReportedErrors(stored) ==
  LET errors == getStoredErrors(stored)
      unreported(err) == ~err.reported
  IN  JSONstringify(SelectSeq(errors, unreported))

StoreError(error) ==
  /\ errorStorage' = storeError(error, errorStorage)
  /\ history' = <<error>> \o history
  /\ called' = [name |-> "storeError", id |-> error.id, found |-> errorStorage.kind]
  /\ UNCHANGED beyondErrors

MarkErrorReported ==
  /\ \E errorId \in ErrorIds :
       /\ errorStorage' = markErrorReported(errorId, errorStorage)
       /\ called' = [name |-> "markErrorReported", id |-> errorId,
                     found |-> errorStorage.kind]
  /\ UNCHANGED <<history, beyondErrors>>

ClearStoredErrors ==
  /\ errorStorage' = NoItem
  /\ called' = [name |-> "clearStoredErrors", id |-> "none", found |-> errorStorage.kind]
  /\ UNCHANGED <<history, beyondErrors>>

ClearReportedErrors ==
  /\ errorStorage' = clearReportedErrors(errorStorage)
  /\ called' = [name |-> "clearReportedErrors", id |-> "none", found |-> errorStorage.kind]
  /\ UNCHANGED <<history, beyondErrors>>

\* The application starts with no item, or with one that is not JSON.
InitErrors ==
  /\ errorStorage \in {NoItem, InvalidJSON}
  /\ history = << >>
  /\ called = [name |-> "none", id |-> "none", found |-> "none"]
  /\ OutsideErrorsIdle

\* storeError calls alone.
StoreErrors ==
  /\ Len(history) < MaxStoreCalls
  /\ \E error \in NewErrors : StoreError(error)

NextErrorQueue == StoreErrors

SpecErrorQueue == InitErrors /\ [][NextErrorQueue]_vars

\* All the functions that write the item.
StoreSomeErrors ==
  /\ Len(history) < MaxMixedCalls
  /\ \E error \in NewErrors : StoreError(error)

NextErrors ==
  StoreSomeErrors \/ MarkErrorReported \/ ClearStoredErrors \/ ClearReportedErrors

SpecErrors == InitErrors /\ [][NextErrors]_vars

----------------------------------------------------------------------------
(* The recent campaigns kept in localStorage (src/unnamed/part_002) *)

\* A RecentCampaign: its id, its name and lastOpened (filePath is carried along
\* unread).  There is one campaign more than the list can hold.
CampaignIds == {"campaign_1", "campaign_2", "campaign_3", "campaign_4"}

CampaignNames == {"Campaign", "Campaign, renamed"}

\* Date.now() is not behind what it answered before; two calls can fall into
\* the same millisecond.
DateNow == {t \in {now, now + 1} : t <= MaxNow}

\* campaigns.sort((a, b) => b.lastOpened - a.lastOpened): a stable sort, the
\* latest first.
sortByLastOpened(campaigns) ==
  StableSort(campaigns, [c \in Range(campaigns) |-> 0 - c.lastOpened])

getRecentCampaigns(stored) ==
  IF stored.kind = "none" THEN << >>
  ELSE LET parsed == JSONparse(stored)
       IN  IF parsed.threw THEN << >>
           ELSE slice(sortByLastOpened(parsed.value), MAX_RECENT)

\* addRecentCampaign keeping the entry that has the id of the new one.
addRecentCampaign_unfiltered(campaign, time, stored) ==
  LET existing == getRecentCampaigns(stored)
      updated == slice(<< [campaign EXCEPT !.lastOpened = time] >> \o existing, MAX_RECENT)
  IN  JSONstringify(updated)

\* The item that addRecentCampaign(campaign) writes, time being what Date.now()
\* answers.
addRecentCampaign(campaign, time, stored) ==
  LET existing == getRecentCampaigns(stored)
      other(c) == c.id # campaign.id
      filtered == SelectSeq(existing, other)
      updated == slice(<< [campaign EXCEPT !.lastOpened = time] >> \o filtered, MAX_RECENT)
  IN  JSONstringify(updated)

\* The item that removeRecentCampaign(campaignId) writes.
removeRecentCampaign(campaignId, stored) ==
  LET existing == getRecentCampaigns(stored)
      other(c) == c.id # campaignId
      filtered == SelectSeq(existing, other)
  IN  JSONstringify(filtered)

\* The record of a call: its name, the id given, and what getRecentCampaigns()
\* answered at its start.
calling(name, id, stored) ==
  LET existing == getRecentCampaigns(stored)
  IN  [name |-> name, id |-> id, found |-> Len(existing),
       known |-> \E k \in DOMAIN existing : existing[k].id = id]

\* The application starts with no item, or with one that is not JSON.
InitRecent ==
  /\ recentStorage \in {NoItem, InvalidJSON}
  /\ now = 0
  /\ recentCalled = [name |-> "none", id |-> "none", found |-> 0, known |-> FALSE]
  /\ OutsideRecentIdle

\* addRecentCampaign(campaign): the caller's lastOpened is overwritten, so it
\* is left at 0 here.
AddRecentCampaign ==
  /\ \E id \in CampaignIds, name \in CampaignNames, time \in DateNow :
       /\ recentStorage' =
            addRecentCampaign([id |-> id, name |-> name, lastOpened |-> 0], time,
                              recentStorage)
       /\ now' = time
       /\ recentCalled' = calling("addRecentCampaign", id, recentStorage)
  /\ UNCHANGED beyondRecent

RemoveRecentCampaign ==
  /\ \E campaignId \in CampaignIds :
       /\ recentStorage' = removeRecentCampaign(campaignId, recentStorage)
       /\ recentCalled' = calling("removeRecentCampaign", campaignId, recentStorage)
  /\ UNCHANGED <<now, beyondRecent>>

NextRecent == AddRecentCampaign \/ RemoveRecentCampaign

SpecRecent == InitRecent /\ [][NextRecent]_vars

----------------------------------------------------------------------------
(* The game store: the campaign and its maps (src/unnamed/part_007) *)

\* JavaScript's undefined, as an id or a name, as a list and as a number.  A
\* MapData is held with its fields id, name, tokens, drawings, map, gridSize,
\* gridType, exploredRegions and isDaylightMode, each of which can be
\* undefined.  A token and a drawing are held as their ids, a MapConfig as its
\* src, an ExploredRegion as its timestamp, and isDaylightMode, a boolean or
\* undefined, as its text.
Undefined == "undefined"

UndefinedList == << Undefined >>

UndefinedNumber == 0 - 1

UndefinedRegions == << UndefinedNumber >>

Null == "null"

\* { ...undefined }: the object without any field.
EmptyObject ==
  [id |-> Undefined, name |-> Undefined, tokens |-> UndefinedList,
   drawings |-> UndefinedList, map |-> Undefined, gridSize |-> UndefinedNumber,
   gridType |-> Undefined, exploredRegions |-> UndefinedRegions,
   isDaylightMode |-> Undefined]

\* Record<string, MapData>, in insertion order (the order of Object.keys).
ObjectKeys(maps) == [k \in DOMAIN maps |-> maps[k].key]

HasKey(maps, key) == \E k \in DOMAIN maps : maps[k].key = key

\* maps[key], EmptyObject standing for undefined under the spread.
GetKey(maps, key) ==
  IF HasKey(maps, key)
  THEN maps[CHOOSE k \in DOMAIN maps : maps[k].key = key].data
  ELSE EmptyObject

\* { ...maps, [key]: data }
PutKey(maps, key, data) ==
  IF HasKey(maps, key)
  THEN [k \in DOMAIN maps |-> IF maps[k].key = key THEN [key |-> key, data |-> data]
                                                  ELSE maps[k]]
  ELSE Append(maps, [key |-> key, data |-> data])

\* const { [key]: deleted, ...remainingMaps } = maps
RemoveKey(maps, key) ==
  LET kept(entry) == entry.key # key
  IN  SelectSeq(maps, kept)

\* mapIds.indexOf(mapId), counted from 1 (0 when absent), and mapIds[i].
IndexOf(mapIds, mapId) ==
  IF \E k \in DOMAIN mapIds : mapIds[k] = mapId
  THEN CHOOSE k \in DOMAIN mapIds : mapIds[k] = mapId
  ELSE 0

ElementAt(mapIds, i) == IF i \in DOMAIN mapIds THEN mapIds[i] ELSE Undefined

\* crypto.randomUUID() answers an id not yet in use.
MapIds == {"map_1", "map_2", "map_3"}

Tokens == {"token"}

NoToast == [message |-> "", type |-> "none"]

createDefaultMap(name, id) ==
  [id |-> id, name |-> name, tokens |-> << >>, drawings |-> << >>, map |-> Null,
   gridSize |-> DefaultGridSize, gridType |-> "LINES", exploredRegions |-> << >>,
   isDaylightMode |-> "false"]

createDefaultCampaign(firstMap) ==
  [maps |-> << [key |-> firstMap.id, data |-> firstMap] >>, activeMapId |-> firstMap.id]

showToast(message, type, state) ==
  [state EXCEPT !.toast = [message |-> message, type |-> type]]

syncActiveMapToCampaign(state) ==
  LET activeId == state.campaign.activeMapId
      updatedMap == [GetKey(state.campaign.maps, activeId) EXCEPT
                       !.tokens = state.tokens,
                       !.drawings = state.drawings,
                       !.map = state.map,
                       !.gridSize = state.gridSize,
                       !.gridType = state.gridType,
                       !.exploredRegions = state.exploredRegions,
                       !.isDaylightMode = state.isDaylightMode]
  IN  [state EXCEPT !.campaign.maps = PutKey(@, activeId, updatedMap)]

addMap(name, id, state) ==
  LET synced == syncActiveMapToCampaign(state)
      newMap == createDefaultMap(name, id)
  IN  [synced EXCEPT !.campaign.maps = PutKey(@, newMap.id, newMap),
                     !.campaign.activeMapId = newMap.id,
                     !.tokens = newMap.tokens,
                     !.drawings = newMap.drawings,
                     !.map = newMap.map,
                     !.gridSize = newMap.gridSize,
                     !.gridType = newMap.gridType,
                     !.exploredRegions = newMap.exploredRegions,
                     !.isDaylightMode = newMap.isDaylightMode]

\* switchMap without its sync of the active map into the campaign.
switchMap_unsynced(mapId, state) ==
  IF state.campaign.activeMapId = mapId THEN state
  ELSE IF ~HasKey(state.campaign.maps, mapId) THEN state
  ELSE LET freshState == state
           newMap == GetKey(freshState.campaign.maps, mapId)
       IN  [freshState EXCEPT
              !.campaign.activeMapId = mapId,
              !.tokens = IF newMap.tokens = UndefinedList THEN << >> ELSE newMap.tokens,
              !.drawings = IF newMap.drawings = UndefinedList THEN << >>
                           ELSE newMap.drawings,
              !.gridSize = newMap.gridSize,
              !.gridType = newMap.gridType,
              !.map = newMap.map,
              !.exploredRegions = IF newMap.exploredRegions = UndefinedRegions THEN << >>
                                  ELSE newMap.exploredRegions,
              !.isDaylightMode = newMap.isDaylightMode]

switchMap(mapId, state) ==
  IF state.campaign.activeMapId = mapId THEN state
  ELSE IF ~HasKey(state.campaign.maps, mapId) THEN state
  ELSE LET freshState == syncActiveMapToCampaign(state)
           newMap == GetKey(freshState.campaign.maps, mapId)
       IN  [freshState EXCEPT
              !.campaign.activeMapId = mapId,
              !.tokens = IF newMap.tokens = UndefinedList THEN << >> ELSE newMap.tokens,
              !.drawings = IF newMap.drawings = UndefinedList THEN << >>
                           ELSE newMap.drawings,
              !.gridSize = newMap.gridSize,
              !.gridType = newMap.gridType,
              !.map = newMap.map,
              !.exploredRegions = IF newMap.exploredRegions = UndefinedRegions THEN << >>
                                  ELSE newMap.exploredRegions,
              !.isDaylightMode = newMap.isDaylightMode]

\* deleteMap without its test for the last map.
deleteMap_unguarded(mapId, state) ==
  LET maps == state.campaign.maps
      activeMapId == state.campaign.activeMapId
      mapIds == ObjectKeys(maps)
      currentIndex == IndexOf(mapIds, mapId)
      next == ElementAt(mapIds, currentIndex + 1)
      nextActiveId == IF next # Undefined THEN next
                      ELSE ElementAt(mapIds, currentIndex - 1)
      switched == IF mapId = activeMapId THEN switchMap(nextActiveId, state) ELSE state
  IN  [switched EXCEPT !.campaign.maps = RemoveKey(@, mapId)]

deleteMap(mapId, state) ==
  LET maps == state.campaign.maps
      activeMapId == state.campaign.activeMapId
      mapIds == ObjectKeys(maps)
      currentIndex == IndexOf(mapIds, mapId)
      next == ElementAt(mapIds, currentIndex + 1)
      nextActiveId == IF next # Undefined THEN next
                      ELSE ElementAt(mapIds, currentIndex - 1)
      switched == IF mapId = activeMapId THEN switchMap(nextActiveId, state) ELSE state
  IN  IF Len(ObjectKeys(maps)) <= 1
      THEN showToast("Cannot delete the only map", "error", state)
      ELSE [switched EXCEPT !.campaign.maps = RemoveKey(@, mapId)]

renameMap(mapId, newName, state) ==
  LET maps == state.campaign.maps
      renamed == [GetKey(maps, mapId) EXCEPT !.name = newName]
  IN  [state EXCEPT !.campaign.maps = PutKey(maps, mapId, renamed)]

addToken(token, state) == [state EXCEPT !.tokens = Append(@, token)]

addDrawing(drawing, state) == [state EXCEPT !.drawings = Append(@, drawing)]

setGridSize(size, state) == [state EXCEPT !.gridSize = size]

setGridType(type, state) == [state EXCEPT !.gridType = type]

setMap(map, state) == [state EXCEPT !.map = map]

setDaylightMode(enabled, state) == [state EXCEPT !.isDaylightMode = enabled]

\* Array.prototype.slice(-n): the last n elements.
sliceLast(s, n) == IF Len(s) <= n THEN s ELSE SubSeq(s, Len(s) - n + 1, Len(s))

\* addExploredRegion keeping the first MAX_EXPLORED_REGIONS regions.
addExploredRegion_keepingOldest(region, state) ==
  LET newRegions == Append(state.exploredRegions, region)
  IN  IF Len(newRegions) > MAX_EXPLORED_REGIONS
      THEN [state EXCEPT !.exploredRegions = slice(newRegions, MAX_EXPLORED_REGIONS)]
      ELSE [state EXCEPT !.exploredRegions = newRegions]

addExploredRegion(region, state) ==
  LET newRegions == Append(state.exploredRegions, region)
  IN  IF Len(newRegions) > MAX_EXPLORED_REGIONS
      THEN [state EXCEPT !.exploredRegions = sliceLast(newRegions, MAX_EXPLORED_REGIONS)]
      ELSE [state EXCEPT !.exploredRegions = newRegions]

\* The object that create(...) is given (lines 219-239): the state of the
\* store when the application starts.
createStore(initialMap, initialCampaign) ==
  [tokens |-> initialMap.tokens,
   drawings |-> initialMap.drawings,
   gridSize |-> initialMap.gridSize,
   gridType |-> initialMap.gridType,
   map |-> initialMap.map,
   exploredRegions |-> initialMap.exploredRegions,
   isDaylightMode |-> initialMap.isDaylightMode,
   toast |-> NoToast,
   campaign |-> initialCampaign]

InitStore ==
  /\ \E id \in MapIds :
       LET initialMap == createDefaultMap("Map 1", id)
           initialCampaign == createDefaultCampaign(initialMap)
       IN  store = createStore(initialMap, initialCampaign)
  /\ storeCalled = [name |-> "none", mapId |-> "none"]
  /\ OutsideStoreIdle

AddMap ==
  /\ \E id \in MapIds \ Range(ObjectKeys(store.campaign.maps)) :
       /\ store' = addMap("New Map", id, store)
       /\ storeCalled' = [name |-> "addMap", mapId |-> id]
  /\ UNCHANGED beyondStore

DeleteMap ==
  /\ \E mapId \in MapIds :
       /\ store' = deleteMap(mapId, store)
       /\ storeCalled' = [name |-> "deleteMap", mapId |-> mapId]
  /\ UNCHANGED beyondStore

SwitchMap ==
  /\ \E mapId \in MapIds :
       /\ store' = switchMap(mapId, store)
       /\ storeCalled' = [name |-> "switchMap", mapId |-> mapId]
  /\ UNCHANGED beyondStore

RenameMap ==
  /\ \E mapId \in MapIds :
       /\ store' = renameMap(mapId, "Renamed", store)
       /\ storeCalled' = [name |-> "renameMap", mapId |-> mapId]
  /\ UNCHANGED beyondStore

AddToken ==
  /\ Len(store.tokens) < MaxTokens
  /\ \E token \in Tokens : store' = addToken(token, store)
  /\ storeCalled' = [name |-> "addToken", mapId |-> "none"]
  /\ UNCHANGED beyondStore

NextStore == AddMap \/ DeleteMap \/ SwitchMap \/ RenameMap \/ AddToken

SpecStore == InitStore /\ [][NextStore]_vars

----------------------------------------------------------------------------
(* The game store: regions explored one after another *)

\* addExploredRegion(region): the region of the n-th call has timestamp n.
ExploreRegion ==
  /\ store' = addExploredRegion(edits + 1, store)
  /\ storeCalled' = [name |-> "addExploredRegion", mapId |-> "none"]
  /\ edits' = edits + 1
  /\ UNCHANGED <<left, beyondNotedStore>>

AddExploredRegion ==
  /\ edits < MAX_EXPLORED_REGIONS + MaxOverflow
  /\ ExploreRegion

NextRegions == AddExploredRegion

SpecRegions == InitStore /\ [][NextRegions]_vars

----------------------------------------------------------------------------
(* The game store: edits of the active map and switches between maps *)

\* The fields of the store that hold the state of the active map (GameState,
\* lines 139-147), and their values.
ActiveFields ==
  {"tokens", "drawings", "gridSize", "gridType", "map", "exploredRegions", "isDaylightMode"}

ActiveMapState(state) == [f \in ActiveFields |-> state[f]]

DrawingIds == {"drawing"}

GridTypes == {"LINES", "DOTS", "HIDDEN"}

MapConfigs == {Null, "map.png"}

\* The campaign of the switches holds two maps, and a third entry once
\* renameMap is called with the id of no map.
SwitchMapIds == {"map_1", "map_2"}

NoSwitch == [from |-> "none", to |-> "none", active |-> << >>]

InitSwitch ==
  /\ LET initialMap == createDefaultMap("Map 1", "map_1")
         initialCampaign == createDefaultCampaign(initialMap)
     IN  store = createStore(initialMap, initialCampaign)
  /\ storeCalled = [name |-> "none", mapId |-> "none"]
  /\ OutsideStoreIdle

\* A call that edits the active map state: state is what it leaves.
Edit(name, state) ==
  /\ edits < MaxEdits
  /\ store' = state
  /\ storeCalled' = [name |-> name, mapId |-> "none"]
  /\ edits' = edits + 1
  /\ UNCHANGED <<left, beyondNotedStore>>

EditToken == \E token \in Tokens : Edit("addToken", addToken(token, store))

EditDrawing == \E drawing \in DrawingIds : Edit("addDrawing", addDrawing(drawing, store))

EditGridSize == \E size \in GridSizesPx : Edit("setGridSize", setGridSize(size, store))

EditGridType == \E type \in GridTypes : Edit("setGridType", setGridType(type, store))

EditMap == \E map \in MapConfigs : Edit("setMap", setMap(map, store))

EditDaylightMode ==
  \E enabled \in {"false", "true"} : Edit("setDaylightMode", setDaylightMode(enabled, store))

EditExploredRegions == edits < MaxEdits /\ ExploreRegion

AddSecondMap ==
  /\ \E id \in SwitchMapIds \ Range(ObjectKeys(store.campaign.maps)) :
       /\ store' = addMap("New Map", id, store)
       /\ storeCalled' = [name |-> "addMap", mapId |-> id]
  /\ UNCHANGED <<storeNotes, beyondNotedStore>>

\* renameMap(mapId, newName) with the id of no map: it leaves an entry that has
\* a name and nothing else.
RenameNoMap ==
  /\ \E mapId \in MapIds \ SwitchMapIds :
       /\ store' = renameMap(mapId, "Renamed", store)
       /\ storeCalled' = [name |-> "renameMap", mapId |-> mapId]
  /\ UNCHANGED <<storeNotes, beyondNotedStore>>

\* switchMap(mapId), with a note of the map it leaves and of the active map
\* state it finds when it does switch.
SwitchMapNoted ==
  /\ \E mapId \in MapIds :
       /\ store' = switchMap(mapId, store)
       /\ storeCalled' = [name |-> "switchMap", mapId |-> mapId]
       /\ left' = IF mapId # store.campaign.activeMapId /\ HasKey(store.campaign.maps, mapId)
                  THEN [from |-> store.campaign.activeMapId, to |-> mapId,
                        active |-> ActiveMapState(store)]
                  ELSE NoSwitch
  /\ UNCHANGED <<edits, beyondNotedStore>>

NextSwitch ==
  \/ EditToken \/ EditDrawing \/ EditGridSize \/ EditGridType \/ EditMap
  \/ EditDaylightMode \/ EditExploredRegions
  \/ AddSecondMap \/ RenameNoMap \/ SwitchMapNoted

SpecSwitch == InitSwitch /\ [][NextSwitch]_vars

----------------------------------------------------------------------------
(* AutoSaveManager (src/src/components/AutoSaveManager.tsx) *)

\* The store as created, the component not yet mounted; window.ipcRenderer is
\* there (Electron) or not.
InitAutoSave ==
  /\ \E id \in MapIds :
       LET initialMap == createDefaultMap("Map 1", id)
           initialCampaign == createDefaultCampaign(initialMap)
       IN  store = createStore(initialMap, initialCampaign)
  /\ storeCalled = [name |-> "none", mapId |-> "none"]
  /\ ipcRenderer \in BOOLEAN
  /\ mounted = FALSE
  /\ effects = 0
  /\ intervalId = 0
  /\ isSaving = << >>
  /\ inFlight = << >>
  /\ lastEvent = "none"
  /\ OutsideAutoSaveIdle

\* The component mounts and its effect runs (lines 14-19, 43): without
\* window.ipcRenderer it returns at once; with it, it makes a new isSaving
\* and sets the interval.
Mount ==
  /\ ~mounted
  /\ effects < MaxMounts
  /\ mounted' = TRUE
  /\ effects' = effects + 1
  /\ isSaving' = Append(isSaving, FALSE)
  /\ inFlight' = Append(inFlight, 0)
  /\ intervalId' = IF ipcRenderer THEN effects + 1 ELSE 0
  /\ lastEvent' = "mount"
  /\ UNCHANGED <<ipcRenderer, storeVars, beyondAutoSave>>

\* The component unmounts: the cleanup of its effect clears the interval
\* (line 45).  A save that is pending stays pending.
Unmount ==
  /\ mounted
  /\ mounted' = FALSE
  /\ intervalId' = 0
  /\ lastEvent' = "unmount"
  /\ UNCHANGED <<ipcRenderer, effects, isSaving, inFlight, storeVars, beyondAutoSave>>

\* The interval fires (lines 19-33): the callback returns when its isSaving is
\* set; else it sets it, syncs the active map into the campaign and invokes
\* AUTO_SAVE, whose answer it awaits.
Tick ==
  /\ intervalId # 0
  /\ IF isSaving[intervalId]
     THEN /\ lastEvent' = "tick skipped"
          /\ UNCHANGED <<isSaving, inFlight, storeVars>>
     ELSE /\ isSaving' = [isSaving EXCEPT ![intervalId] = TRUE]
          /\ store' = syncActiveMapToCampaign(store)
          /\ storeCalled' = [name |-> "syncActiveMapToCampaign", mapId |-> "none"]
          /\ inFlight' = [inFlight EXCEPT ![intervalId] = @ + 1]
          /\ lastEvent' = "tick"
  /\ UNCHANGED <<ipcRenderer, mounted, effects, intervalId, beyondAutoSave>>

\* A pending AUTO_SAVE settles (lines 33-42): it resolves to true or to false,
\* or rejects; the finally block clears the isSaving of the effect run that
\* invoked it.
Settle ==
  /\ \E run \in DOMAIN inFlight :
       /\ inFlight[run] > 0
       /\ inFlight' = [inFlight EXCEPT ![run] = @ - 1]
       /\ isSaving' = [isSaving EXCEPT ![run] = FALSE]
  /\ lastEvent' \in {"saved", "not saved", "rejected"}
  /\ UNCHANGED <<ipcRenderer, mounted, effects, intervalId, storeVars, beyondAutoSave>>

NextAutoSave == Mount \/ Unmount \/ Tick \/ Settle

SpecAutoSave == InitAutoSave /\ [][NextAutoSave]_vars

----------------------------------------------------------------------------
(* CanvasManager (src/src/components/Canvas/CanvasManager.tsx) *)

\* React renders the component with its tool prop and its tempLine state, and
\* attaches to the Stage the handlers made in that render: a handler reads the
\* tool and the tempLine of its render.  setTempLine(v) changes the state for
\* the next render; the render comes as its own step, which the next mouse
\* event need not wait for.  A change of the tool prop is a render.

Tools == {"select", "marker", "eraser"}

\* null, as currentLine.current and as tempLine.
NoLine == [tool |-> "none", points |-> << >>, color |-> "", size |-> 0]

\* stage.getPointerPosition(): where the pointer is leaves no trace but the
\* number of points of a line, so it is held at one place.
PointerPositions == { Point(0, 0) }

\* The line that handleMouseDown starts (lines 316-322); its id is left out.
newLine(t, pos) ==
  [tool |-> t, points |-> << pos.x, pos.y >>,
   color |-> IF t = "eraser" THEN "#000000" ELSE "#df4b26",
   size |-> IF t = "eraser" THEN 20 ELSE 5]

\* The component as rendered first, on the store as created, the mouse at rest.
InitCanvas ==
  /\ LET initialMap == createDefaultMap("Map 1", "map_1")
         initialCampaign == createDefaultCampaign(initialMap)
     IN  store = createStore(initialMap, initialCampaign)
  /\ storeCalled = [name |-> "none", mapId |-> "none"]
  /\ tool \in Tools
  /\ isDrawing = FALSE
  /\ currentLine = NoLine
  /\ tempLine = NoLine
  /\ seenTempLine = NoLine
  /\ gesture = [held |-> FALSE, moves |-> 0, tool |-> "none"]
  /\ mouseEvent = "none"
  /\ OutsideCanvasIdle

\* handleMouseDown (lines 309-323); the mouse has one button.
MouseDown ==
  /\ ~gesture.held
  /\ Len(store.drawings) < MaxStrokes
  /\ gesture' = [held |-> TRUE, moves |-> 0, tool |-> tool]
  /\ mouseEvent' = "mousedown"
  /\ IF tool = "select"
     THEN UNCHANGED <<isDrawing, currentLine>>
     ELSE /\ isDrawing' = TRUE
          /\ \E pos \in PointerPositions : currentLine' = newLine(tool, pos)
  /\ UNCHANGED <<tool, tempLine, seenTempLine, storeVars, beyondCanvas>>

\* handleMouseMove (lines 344-356)
MouseMove ==
  /\ gesture.moves < MaxMoves
  /\ Len(currentLine.points) < 2 * (MaxMoves + 1)
  /\ gesture' = IF gesture.held THEN [gesture EXCEPT !.moves = @ + 1] ELSE gesture
  /\ mouseEvent' = "mousemove"
  /\ IF ~isDrawing \/ tool = "select"
     THEN UNCHANGED <<currentLine, tempLine>>
     ELSE \E point \in PointerPositions :
            LET cur == [currentLine EXCEPT !.points = @ \o << point.x, point.y >>]
            IN  /\ currentLine' = cur
                /\ tempLine' = cur
  /\ UNCHANGED <<tool, isDrawing, seenTempLine, storeVars, beyondCanvas>>

\* handleMouseUp (lines 377-387), which the Stage has for onMouseUp and for
\* onMouseLeave (lines 410-411).
handleMouseUp(name) ==
  /\ gesture' = [held |-> FALSE, moves |-> 0, tool |-> "none"]
  /\ mouseEvent' = name
  /\ IF ~isDrawing \/ tool = "select"
     THEN UNCHANGED <<isDrawing, tempLine, storeVars>>
     ELSE /\ isDrawing' = FALSE
          /\ IF seenTempLine # NoLine
             THEN /\ store' = addDrawing(seenTempLine, store)
                  /\ storeCalled' = [name |-> "addDrawing", mapId |-> "none"]
                  /\ tempLine' = NoLine
             ELSE UNCHANGED <<tempLine, storeVars>>
  /\ UNCHANGED <<tool, currentLine, seenTempLine, beyondCanvas>>

MouseUp == handleMouseUp("mouseup")

MouseLeave == handleMouseUp("mouseleave")

\* React renders the component after setTempLine.
Render ==
  /\ seenTempLine # tempLine
  /\ seenTempLine' = tempLine
  /\ mouseEvent' = "none"
  /\ UNCHANGED <<tool, isDrawing, currentLine, tempLine, gesture, storeVars, beyondCanvas>>

\* The toolbar of the application hands the component another tool.
SetTool ==
  /\ \E t \in Tools \ {tool} : tool' = t
  /\ seenTempLine' = tempLine
  /\ gesture' = IF gesture.held THEN [gesture EXCEPT !.tool = "changed"] ELSE gesture
  /\ mouseEvent' = "none"
  /\ UNCHANGED <<isDrawing, currentLine, tempLine, storeVars, beyondCanvas>>

NextCanvas == MouseDown \/ MouseMove \/ MouseUp \/ MouseLeave \/ Render \/ SetTool

SpecCanvas == InitCanvas /\ [][NextCanvas]_vars

----------------------------------------------------------------------------
(* Properties *)

Returned == pc = "done"

\* The vertices of a Drawing, from its flat points array.
Vertices(d) ==
  [k \in 1 .. Len(d.points) \div 2 |-> Point(d.points[2 * k - 1], d.points[2 * k])]

\* C1: two independent instances built from the identical configuration return
\* the same number of doors, the same number of drawings and the same geometry,
\* coordinate for coordinate (same rooms, same walls).
C1_Determinism ==
  (instance = 2 /\ Returned) =>
    /\ Len(doors) = Len(first.doors)
    /\ Len(drawings) = Len(first.drawings)
    /\ rooms = first.rooms
    /\ drawings = first.drawings

\* Two rooms a and b are 2 * gridSize apart along the x axis or along the y axis.
Separated(a, b, o) ==
  LET padding == 2 * o.gridSize
  IN  \/ a.x + a.width + padding <= b.x
      \/ b.x + b.width + padding <= a.x
      \/ a.y + a.height + padding <= b.y
      \/ b.y + b.height + padding <= a.y

\* C2: any two distinct accepted rooms are separated by at least 2 * gridSize
\* along the x axis or along the y axis, during placement and after generate().
C2_NonOverlap ==
  \A i, j \in 1 .. Len(rooms) : i # j => Separated(rooms[i], rooms[j], options)

C2_Witness == Returned /\ Len(rooms) = 3

\* C3: with n accepted rooms generate() builds exactly n - 1 corridors and its
\* result contains exactly 2 * (n - 1) doors.
C3_ConnectivityCount ==
  Returned =>
    /\ Len(corridors) = Len(rooms) - 1
    /\ Len(doors) = 2 * (Len(rooms) - 1)

\* The doorway points recorded so far, over all rooms.
DoorwayPoints == UNION { Range(roomDoorways[k]) : k \in DOMAIN roomDoorways }

\* C4: every door position (the connection point recorded as a doorway) has x
\* and y that are multiples of gridSize.
C4_DoorGridAlignment ==
  \A p \in DoorwayPoints : p.x % options.gridSize = 0 /\ p.y % options.gridSize = 0

\* C5: no Drawing that generate() emits has two identical consecutive points (a
\* zero-length segment).
C5_NoDegenerateWalls ==
  \A k \in 1 .. Len(drawings) :
    LET v == Vertices(drawings[k])
    IN  \A n \in 1 .. Len(v) - 1 : v[n] # v[n + 1]

\* C6: every accepted room has x, y, width and height that are multiples of
\* gridSize, with width and height in cells each in minRoomSize .. maxRoomSize.
C6_RoomGridAlignment ==
  \A k \in 1 .. Len(rooms) :
    LET room == rooms[k]
        g == options.gridSize
        sizes == options.minRoomSize .. options.maxRoomSize
    IN  /\ room.x % g = 0
        /\ room.y % g = 0
        /\ room.width % g = 0
        /\ room.height % g = 0
        /\ room.width \div g \in sizes
        /\ room.height \div g \in sizes

C6_Witness ==
  /\ Returned
  /\ Len(rooms) >= 2
  /\ \E k \in 1 .. Len(rooms) : rooms[k].width # rooms[k].height /\ rooms[k].x > 0

(* The four edges of a room *)

Edges == {"top", "right", "bottom", "left"}

IsHorizontalEdge(e) == e \in {"top", "bottom"}

\* A point's coordinate along edge e, and across it.
Along(e, p) == IF IsHorizontalEdge(e) THEN p.x ELSE p.y

Across(e, p) == IF IsHorizontalEdge(e) THEN p.y ELSE p.x

\* Where edge e of a room lies, and its extent.
EdgeLine(e, room) ==
  CASE e = "top" -> room.y
    [] e = "bottom" -> room.y + room.height
    [] e = "left" -> room.x
    [] e = "right" -> room.x + room.width

EdgeLo(e, room) == IF IsHorizontalEdge(e) THEN room.x ELSE room.y

EdgeHi(e, room) ==
  IF IsHorizontalEdge(e) THEN room.x + room.width ELSE room.y + room.height

OnEdge(e, p, room) ==
  /\ Across(e, p) = EdgeLine(e, room)
  /\ EdgeLo(e, room) <= Along(e, p)
  /\ Along(e, p) <= EdgeHi(e, room)

OnBoundary(p, room) == \E e \in Edges : OnEdge(e, p, room)

\* The two ends of a one-segment Drawing, whichever way it was drawn.
Ends(d) == {Point(d.points[1], d.points[2]), Point(d.points[3], d.points[4])}

\* The stretch of edge e that a Drawing lying on it covers.
Stretch(e, d) ==
  LET a == Along(e, Point(d.points[1], d.points[2]))
      b == Along(e, Point(d.points[3], d.points[4]))
  IN  IF a <= b THEN <<a, b>> ELSE <<b, a>>

\* The positions in the result of the one-segment Drawings lying on edge e.
WallsOnEdge(e, room, result) ==
  { k \in 1 .. Len(result) :
      /\ Len(result[k].points) = 4
      /\ \A p \in Ends(result[k]) : OnEdge(e, p, room) }

\* The doorways given for a room that lie on its edge e.
DoorwaysOnEdge(e, room, given) == { k \in 1 .. Len(given) : OnEdge(e, given[k], room) }

\* The gridSize-wide gaps of the doorways on edge e are pairwise disjoint and
\* more than 1px away from both corners.
GapsWellInside(e, room, given, o) ==
  LET on == DoorwaysOnEdge(e, room, given)
      half == o.gridSize \div 2
  IN  /\ \A i, j \in on : i # j => Abs(Along(e, given[i]) - Along(e, given[j])) >= o.gridSize
      /\ \A i \in on : /\ Along(e, given[i]) - half - EdgeLo(e, room) > Px(1)
                       /\ EdgeHi(e, room) - (Along(e, given[i]) + half) > Px(1)

\* The stretches of edge e left once the gaps are cut out: from the corner or
\* the end of a gap to the start of the next gap or the far corner.
StretchesBetweenGaps(e, room, given, o) ==
  LET on == DoorwaysOnEdge(e, room, given)
      half == o.gridSize \div 2
      starts == {EdgeLo(e, room)} \cup {Along(e, given[k]) + half : k \in on}
      stops == {EdgeHi(e, room)} \cup {Along(e, given[k]) - half : k \in on}
      next(s) == CHOOSE t \in stops : t >= s /\ \A u \in stops : u >= s => t <= u
  IN  { <<s, next(s)>> : s \in starts }

\* C7: an edge holding k >= 1 doorways, with gaps pairwise disjoint and more
\* than 1px away from both corners, gets exactly k + 1 wall Drawings, which
\* cover the edge except the k gaps; this for each of the four edges.
C7_WallSegmentsWithGaps ==
  Returned =>
    \A e \in Edges :
      LET room == rooms[1]
          given == roomDoorways[1]
          k == Cardinality(DoorwaysOnEdge(e, room, given))
          walls == WallsOnEdge(e, room, drawings)
      IN  (k >= 1 /\ GapsWellInside(e, room, given, options)) =>
            /\ Cardinality(walls) = k + 1
            /\ {Stretch(e, drawings[n]) : n \in walls}
                 = StretchesBetweenGaps(e, room, given, options)

\* The five Drawings of a room whose one doorway d lies on its top edge.
FiveDrawings(room, d, o) ==
  LET half == o.gridSize \div 2
      topLeft == Point(room.x, room.y)
      topRight == Point(room.x + room.width, room.y)
      bottomRight == Point(room.x + room.width, room.y + room.height)
      bottomLeft == Point(room.x, room.y + room.height)
  IN  { {topLeft, Point(d.x - half, d.y)}, {Point(d.x + half, d.y), topRight},
        {topRight, bottomRight}, {bottomRight, bottomLeft}, {bottomLeft, topLeft} }

TopDoorwayOnly == Len(roomDoorways[1]) = 1 /\ OnEdge("top", roomDoorways[1][1], rooms[1])

ReturnsFiveDrawings ==
  /\ Len(drawings) = 5
  /\ \A k \in 1 .. Len(drawings) : Len(drawings[k].points) = 4
  /\ {Ends(drawings[k]) : k \in 1 .. Len(drawings)}
       = FiveDrawings(rooms[1], roomDoorways[1][1], options)

\* C8 as stated: a room whose only doorway lies on its top edge and not at a
\* corner (read generously: the whole gap lies strictly between the corners)
\* gets exactly five Drawings, two for the top edge and one full-length Drawing
\* for each other edge.
C8_TopEdgeDoorwayAsStated ==
  LET d == roomDoorways[1][1]
      half == options.gridSize \div 2
  IN  (/\ Returned
       /\ TopDoorwayOnly
       /\ rooms[1].x < d.x - half
       /\ d.x + half < rooms[1].x + rooms[1].width) => ReturnsFiveDrawings

\* C8, amended: a room whose only doorway lies on its top edge, with the gap
\* more than 1px away from both corners, gets exactly five Drawings: two for the
\* top edge (corner to gap start, gap end to corner) and one full-length Drawing
\* for each of the right, bottom and left edges.
C8_TopEdgeDoorway ==
  (/\ Returned
   /\ TopDoorwayOnly
   /\ GapsWellInside("top", rooms[1], roomDoorways[1], options)) => ReturnsFiveDrawings

C8_Witness ==
  /\ Returned
  /\ TopDoorwayOnly
  /\ GapsWellInside("top", rooms[1], roomDoorways[1], options)
  /\ Len(drawings) = 5

\* C9: a room without doorways is emitted as one Drawing through its five
\* corner points, closed on its first; generate() with exactly one accepted room
\* returns that one Drawing and no doors.
C9_RoomWithoutDoorways ==
  (Returned /\ Len(rooms) = 1) =>
    /\ DoorwayPoints = {}
    /\ Len(doors) = 0
    /\ Len(drawings) = 1
    /\ LET room == rooms[1]
       IN  drawings[1].points =
             << room.x, room.y, room.x + room.width, room.y,
                room.x + room.width, room.y + room.height,
                room.x, room.y + room.height, room.x, room.y >>

C9_Witness == Returned /\ Len(rooms) = 1 /\ options.numRooms > 1

\* C10: every doorway position produced for a corridor lies on the boundary of
\* the room it is recorded against: on one of its four edges, within the
\* edge's extent.
C10_DoorOnBoundary ==
  /\ \A k \in DOMAIN roomDoorways :
       \A p \in Range(roomDoorways[k]) : OnBoundary(p, rooms[k])
  /\ \A c \in DOMAIN corridors :
       \A n \in DOMAIN corridors[c].doorways :
         OnBoundary(corridors[c].doorways[n].point, corridors[c].doorways[n].room)

C10_Witness == Returned /\ \E k \in DOMAIN roomDoorways : Len(roomDoorways[k]) = 2

\* C11: when the 50th candidate of a room slot is rejected the slot is skipped
\* and generation goes on with the next slot (or, after the last slot, with the
\* corridors and walls) without an error; no pass of the placement loop removes
\* or moves a room accepted earlier; and the rooms never outnumber numRooms.
C11_SilentExhaustion ==
  /\ [][ (pc = "place" /\ attempts = 49 /\ Len(rooms') = Len(rooms)) =>
           /\ slot' = slot + 1
           /\ attempts' = 0
           /\ pc' = IF slot + 1 < options.numRooms THEN "place"
                    ELSE IF Len(rooms) > 1 THEN "connect" ELSE "walls" ]_vars
  /\ [][ pc = "place" =>
           /\ Len(rooms') >= Len(rooms)
           /\ Range(rooms) \subseteq Range(rooms') ]_vars
  /\ [](Len(rooms) <= options.numRooms)

C11_Witness == Returned /\ Len(rooms) >= 2 /\ Len(rooms) < options.numRooms

\* C12: generate() always terminates; no slot gets more than 50 candidates, so
\* the candidates generated in all never exceed 50 per slot begun, and never
\* numRooms * 50.
C12_BoundedGeneration ==
  /\ [](attempts < 50)
  /\ [](generated <= 50 * slot + attempts)
  /\ [](generated <= options.numRooms * 50)
  /\ <>Returned

C12_Witness ==
  /\ Returned
  /\ options.numRooms >= 2
  /\ generated = 1 + 50 * (options.numRooms - 1)

\* The rooms (by position in rooms) that corridors join to a room of S.
JoinedTo(S) ==
  { j \in 1 .. Len(rooms) :
      \E c \in DOMAIN corridors, i \in S :
        {rooms[i], rooms[j]} = {corridors[c].doorways[1].room, corridors[c].doorways[2].room} }

RECURSIVE ReachableFrom(_)
ReachableFrom(S) == IF JoinedTo(S) \subseteq S THEN S ELSE ReachableFrom(S \cup JoinedTo(S))

\* C13: once placement is over the rooms are in order of non-decreasing
\* horizontal centre, corridor i joins room i and room i + 1 of that order, and
\* in the result every room is reachable from every other along the corridors.
C13_PathConnectivity ==
  /\ pc \in {"connect", "walls", "done"} =>
       /\ \A k \in 1 .. Len(rooms) - 1 : centerX(rooms[k]) <= centerX(rooms[k + 1])
       /\ \A c \in DOMAIN corridors :
            /\ corridors[c].doorways[1].room = rooms[c]
            /\ corridors[c].doorways[2].room = rooms[c + 1]
  /\ Returned =>
       /\ DOMAIN corridors = 1 .. Len(rooms) - 1
       /\ \A k \in 1 .. Len(rooms) : ReachableFrom({k}) = 1 .. Len(rooms)

C13_Witness ==
  /\ Returned
  /\ Len(corridors) = 2
  /\ centerX(rooms[1]) < centerX(rooms[2])
  /\ centerX(rooms[2]) = centerX(rooms[3])

\* C14: every accepted room lies inside the canvas: 0 <= x, 0 <= y,
\* x + width <= canvasWidth and y + height <= canvasHeight, also when the canvas
\* is smaller than the room asked for.
C14_RoomsInsideCanvas ==
  \A k \in 1 .. Len(rooms) :
    /\ 0 <= rooms[k].x
    /\ 0 <= rooms[k].y
    /\ rooms[k].x + rooms[k].width <= options.canvasWidth
    /\ rooms[k].y + rooms[k].height <= options.canvasHeight

\* The doorways recorded against the rooms, counted.
RECURSIVE DoorwayCount(_)
DoorwayCount(k) == IF k = 0 THEN 0 ELSE Len(roomDoorways[k]) + DoorwayCount(k - 1)

ValidDoor(door) ==
  /\ {"id", "x", "y", "thickness", "swingDirection"} \subseteq DOMAIN door
  /\ door.orientation \in {"horizontal", "vertical"}
  /\ door.isOpen \in BOOLEAN
  /\ door.isLocked \in BOOLEAN
  /\ door.size > 0

\* C15: generate() returns its doors, one for each doorway, and every Door has
\* an id, x and y, an orientation that is 'horizontal' or 'vertical', boolean
\* isOpen and isLocked, size > 0, and a thickness and a swingDirection.
C15_DoorValidity ==
  Returned =>
    /\ Len(doors) = DoorwayCount(Len(rooms))
    /\ \A n \in DOMAIN doors : ValidDoor(doors[n])

\* C16: after any run of storeError calls getStoredErrors() returns at most 10
\* errors, newest first: exactly the 10 errors stored last (all of them while
\* fewer than 10 have been stored).
C16_BoundedErrorQueue ==
  LET stored == getStoredErrors(errorStorage)
  IN  /\ Len(stored) <= 10
      /\ Len(stored) = (IF Len(history) < 10 THEN Len(history) ELSE 10)
      /\ \A k \in 1 .. Len(stored) : stored[k] = history[k]

C16_Witness ==
  /\ Len(history) = 11
  /\ Len(getStoredErrors(errorStorage)) = 10
  /\ history[11] # history[10]

\* C17: markErrorReported(id) sets reported on the stored errors whose id is id
\* and leaves every other stored error, the order and the length of the list as
\* they were; when no stored error has that id the list is unchanged.
C17_MarkErrorReportedFrame ==
  [][ called'.name = "markErrorReported" =>
        LET before == getStoredErrors(errorStorage)
            after == getStoredErrors(errorStorage')
        IN  /\ Len(after) = Len(before)
            /\ \A k \in 1 .. Len(before) :
                 after[k] = IF before[k].id = called'.id
                            THEN [before[k] EXCEPT !.reported = TRUE] ELSE before[k]
            /\ (\A k \in 1 .. Len(before) : before[k].id # called'.id) => after = before
    ]_vars

C17_Witness ==
  LET stored == getStoredErrors(errorStorage)
  IN  /\ called.name = "markErrorReported"
      /\ Len(stored) = 3
      /\ stored[1].id # called.id /\ ~stored[1].reported
      /\ stored[2].id = called.id /\ stored[2].reported
      /\ stored[3].id = called.id /\ stored[3].reported

\* C18: while the item is not valid JSON getStoredErrors() returns the empty
\* list, and storeError(e) called then leaves the item holding exactly [e].
C18_CorruptedStorageTolerated ==
  /\ [](errorStorage.kind = "garbage" => getStoredErrors(errorStorage) = << >>)
  /\ [][ (errorStorage.kind = "garbage" /\ Len(history') = Len(history) + 1) =>
           errorStorage' = JSONstringify(<< history'[1] >>) ]_vars

C18_Witness ==
  /\ called.name = "storeError"
  /\ called.found = "garbage"
  /\ Len(history) = 1
  /\ errorStorage = [kind |-> "json", value |-> << history[1] >>]

\* C19: deleteMap called while the campaign holds exactly one map leaves
\* campaign.maps, activeMapId and the active map state as they were and only
\* sets the error toast 'Cannot delete the only map'; and campaign.maps is never
\* empty, whatever addMap, deleteMap, switchMap and renameMap calls were made.
C19_LastMapKept ==
  /\ [][ (storeCalled'.name = "deleteMap" /\ Len(store.campaign.maps) = 1) =>
           /\ store'.campaign = store.campaign
           /\ store'.tokens = store.tokens
           /\ store'.drawings = store.drawings
           /\ store'.map = store.map
           /\ store'.gridSize = store.gridSize
           /\ store'.gridType = store.gridType
           /\ store'.exploredRegions = store.exploredRegions
           /\ store'.isDaylightMode = store.isDaylightMode
           /\ store'.toast = [message |-> "Cannot delete the only map", type |-> "error"]
       ]_vars
  /\ [](Len(store.campaign.maps) >= 1)

C19_Witness ==
  /\ storeCalled.name = "deleteMap"
  /\ Len(store.campaign.maps) = 1
  /\ store.toast.type = "error"
  /\ Len(store.tokens) = 1
  /\ store.campaign.maps[1].data.tokens = << >>

\* The AUTO_SAVE invocations in flight, over all effect runs.
RECURSIVE InFlightUpTo(_)
InFlightUpTo(run) == IF run = 0 THEN 0 ELSE inFlight[run] + InFlightUpTo(run - 1)

\* C20: at most one AUTO_SAVE invocation is in flight at any time; a tick that
\* fires while a save is pending does nothing; and isSaving is cleared when the
\* pending save resolves or rejects, so that a later tick saves again.
C20_AutoSaveNeverOverlaps ==
  /\ [](InFlightUpTo(Len(inFlight)) <= 1)
  /\ [][ lastEvent' = "tick skipped" => UNCHANGED <<store, isSaving, inFlight>> ]_vars
  /\ [][ \A run \in DOMAIN inFlight :
           inFlight'[run] < inFlight[run] => ~isSaving'[run] ]_vars
  /\ [][ (intervalId # 0 /\ lastEvent \in {"saved", "not saved", "rejected"}
          /\ lastEvent' = "tick" /\ ~isSaving[intervalId]) =>
           inFlight'[intervalId] = inFlight[intervalId] + 1 ]_vars

(* The corridors *)

\* The point 1px outside a room from a point p of its boundary, along the
\* outward normal of the edge holding p.
Nudged(p, room) ==
  CASE OnEdge("left", p, room) -> Point(p.x - Px(1), p.y)
    [] OnEdge("right", p, room) -> Point(p.x + Px(1), p.y)
    [] OnEdge("top", p, room) -> Point(p.x, p.y - Px(1))
    [] OnEdge("bottom", p, room) -> Point(p.x, p.y + Px(1))
    [] OTHER -> p

InsideOrOn(p, room) ==
  /\ room.x <= p.x /\ p.x <= room.x + room.width
  /\ room.y <= p.y /\ p.y <= room.y + room.height

\* The two walls either side of the leg of a path that runs from one point to
\* another, half away from it.
LegWalls(from, to, isHorizontal, half) ==
  IF isHorizontal
  THEN << Drawing(<<from.x, from.y - half, to.x, to.y - half>>),
          Drawing(<<from.x, from.y + half, to.x, to.y + half>>) >>
  ELSE << Drawing(<<from.x - half, from.y, to.x - half, to.y>>),
          Drawing(<<from.x + half, from.y, to.x + half, to.y>>) >>

\* Two one-segment Drawings are parallel, g apart: one is the other moved by g
\* along the y axis, or along the x axis.
ParallelApart(a, b, g) ==
  \/ /\ a.points[1] = b.points[1] /\ a.points[3] = b.points[3]
     /\ b.points[2] - a.points[2] = g /\ b.points[4] - a.points[4] = g
  \/ /\ a.points[2] = b.points[2] /\ a.points[4] = b.points[4]
     /\ b.points[1] - a.points[1] = g /\ b.points[3] - a.points[3] = g

\* The path of a corridor read off its walls: where the path starts (midway
\* between the starts of the walls of the first leg) and where it ends (midway
\* between the ends of the walls of the second leg).
PathStart(ds) ==
  Point((ds[1].points[1] + ds[2].points[1]) \div 2, (ds[1].points[2] + ds[2].points[2]) \div 2)

PathEnd(ds) ==
  Point((ds[3].points[3] + ds[4].points[3]) \div 2, (ds[3].points[4] + ds[4].points[4]) \div 2)

C22_ConnectionPointNudge ==
  \A c \in DOMAIN corridors :
    LET ds == corridors[c].drawings
        from == corridors[c].doorways[1]
        to == corridors[c].doorways[2]
    IN  /\ PathStart(ds) = Nudged(from.point, from.room)
        /\ PathEnd(ds) = Nudged(to.point, to.room)
        /\ ~InsideOrOn(PathStart(ds), from.room)
        /\ ~InsideOrOn(PathEnd(ds), to.room)
        /\ Abs(PathStart(ds).x - from.point.x) + Abs(PathStart(ds).y - from.point.y) = Px(1)
        /\ Abs(PathEnd(ds).x - to.point.x) + Abs(PathEnd(ds).y - to.point.y) = Px(1)
        /\ OnBoundary(from.point, from.room)
        /\ OnBoundary(to.point, to.room)
        /\ roomDoorways[c][Len(roomDoorways[c])] = from.point
        /\ roomDoorways[c + 1][1] = to.point

\* The edges of their rooms that hold the connection points of the corridors.
ConnectionEdges ==
  { e \in Edges :
      \E c \in DOMAIN corridors, n \in 1 .. 2 :
        OnEdge(e, corridors[c].doorways[n].point, corridors[c].doorways[n].room) }

C22_Witness == Returned /\ Len(corridors) = 2 /\ ConnectionEdges = Edges

\* The midpoint of edge e of a room.
EdgeMidpoint(e, room) ==
  CASE e = "right" -> Point(room.x + room.width, room.y + room.height \div 2)
    [] e = "left" -> Point(room.x, room.y + room.height \div 2)
    [] e = "bottom" -> Point(room.x + room.width \div 2, room.y + room.height)
    [] e = "top" -> Point(room.x + room.width \div 2, room.y)

\* The edge of room1 facing the centre of room2: dx and dy are the deltas of
\* the centres, doubled (so that they are whole).
FacingEdge(room1, room2) ==
  LET dx == (2 * room2.x + room2.width) - (2 * room1.x + room1.width)
      dy == (2 * room2.y + room2.height) - (2 * room1.y + room1.height)
  IN  IF Abs(dx) > Abs(dy) /\ dx > 0 THEN "right"
      ELSE IF Abs(dx) > Abs(dy) /\ dx <= 0 THEN "left"
      ELSE IF Abs(dx) <= Abs(dy) /\ dy > 0 THEN "bottom"
      ELSE "top"

\* C23: getConnectionPoint(room1, room2) is the midpoint of the edge of room1
\* facing the centre of room2 on the axis with the larger absolute centre
\* delta: right when |dx| > |dy| and dx > 0, left when |dx| > |dy| and dx <= 0,
\* bottom when |dx| <= |dy| and dy > 0, top otherwise (ties use the vertical
\* axis).  Each corridor records getConnectionPoint(room1, room2) and
\* getConnectionPoint(room2, room1).
C23_ConnectionEdgeChoice ==
  \A c \in DOMAIN corridors :
    LET room1 == corridors[c].doorways[1].room
        room2 == corridors[c].doorways[2].room
    IN  /\ corridors[c].doorways[1].point = EdgeMidpoint(FacingEdge(room1, room2), room1)
        /\ corridors[c].doorways[2].point = EdgeMidpoint(FacingEdge(room2, room1), room2)

\* The two centre deltas of the rooms of corridor c tie, and are not 0.
TiedDeltas(c) ==
  LET center1 == getRoomCenter(corridors[c].doorways[1].room)
      center2 == getRoomCenter(corridors[c].doorways[2].room)
  IN  /\ Abs(center2.x - center1.x) = Abs(center2.y - center1.y)
      /\ center2.x # center1.x

C23_Witness ==
  /\ Returned
  /\ Len(corridors) = 2
  /\ \E c \in DOMAIN corridors : TiedDeltas(c)
  /\ \E c \in DOMAIN corridors : ~TiedDeltas(c)

(* The recent campaigns *)

\* The list that the item holds (none while there is no item or it is not JSON).
StoredCampaigns(item) == IF item.kind = "json" THEN item.value ELSE << >>

\* C24: after any sequence of addRecentCampaign and removeRecentCampaign calls
\* the stored list has at most 3 entries, with pairwise distinct ids, the
\* latest opened first (so that getRecentCampaigns() answers the stored list);
\* addRecentCampaign(c) puts c first, stamped with the time of the call, drops
\* any earlier entry with the id of c, keeps the other entries in their order
\* and, when there are 3 of them, evicts the last, which none is older than;
\* removeRecentCampaign(id) drops the entry with that id alone.
C24_RecentCampaigns ==
  /\ [](LET list == StoredCampaigns(recentStorage)
        IN  /\ Len(list) <= 3
            /\ \A i, j \in DOMAIN list : i # j => list[i].id # list[j].id
            /\ \A i, j \in DOMAIN list : i < j => list[i].lastOpened >= list[j].lastOpened
            /\ getRecentCampaigns(recentStorage) = list)
  /\ [][ recentCalled'.name = "addRecentCampaign" =>
           LET before == StoredCampaigns(recentStorage)
               after == StoredCampaigns(recentStorage')
               other(c) == c.id # recentCalled'.id
               kept == SelectSeq(before, other)
           IN  /\ Len(after) >= 1
               /\ after[1].id = recentCalled'.id
               /\ after[1].lastOpened = now'
               /\ Tail(after) = SubSeq(kept, 1, IF Len(kept) < 3 THEN Len(kept) ELSE 2)
               /\ Len(kept) = 3 =>
                    \A k \in DOMAIN after : after[k].lastOpened >= kept[3].lastOpened
       ]_vars
  /\ [][ recentCalled'.name = "removeRecentCampaign" =>
           LET other(c) == c.id # recentCalled'.id
           IN  StoredCampaigns(recentStorage')
                 = SelectSeq(StoredCampaigns(recentStorage), other) ]_vars

\* A fourth campaign has been added to three others.
C24_Witness ==
  /\ recentCalled.name = "addRecentCampaign"
  /\ recentCalled.found = 3
  /\ ~recentCalled.known
  /\ Len(StoredCampaigns(recentStorage)) = 3
  /\ StoredCampaigns(recentStorage)[1].id = recentCalled.id
  /\ StoredCampaigns(recentStorage)[2].lastOpened > StoredCampaigns(recentStorage)[3].lastOpened

(* The game store *)

\* C25: with map A active and another map B in the campaign, switchMap(B)
\* keeps every edit of A (the entry of A in the campaign holds the active map
\* state that the call found), and switchMap(A) called next restores tokens,
\* drawings, map, gridSize, gridType, exploredRegions and isDaylightMode to
\* what they were before switchMap(B), whatever edits A had received.
C25_SwitchRoundTrip ==
  /\ [][ (storeCalled'.name = "switchMap" /\ left'.from # "none") =>
           /\ store'.campaign.activeMapId = left'.to
           /\ \A f \in ActiveFields :
                GetKey(store'.campaign.maps, left'.from)[f] = store[f] ]_vars
  /\ [][ (/\ storeCalled.name = "switchMap"
          /\ left.from # "none"
          /\ storeCalled'.name = "switchMap"
          /\ storeCalled'.mapId = left.from) =>
           /\ store'.campaign.activeMapId = left.from
           /\ ActiveMapState(store') = left.active ]_vars

\* A round trip made from a map edited twice, by way of a map as created.
C25_Witness ==
  /\ storeCalled.name = "switchMap"
  /\ left.from = "map_2"
  /\ left.to = "map_1"
  /\ store.campaign.activeMapId = "map_1"
  /\ edits = 2
  /\ store.tokens = << "token" >>
  /\ store.gridType = "DOTS"
  /\ left.active = ActiveMapState(createDefaultMap("New Map", "map_2"))

\* C26: after any sequence of addExploredRegion calls, started from fewer than
\* 200 explored regions, exploredRegions holds at most 200 entries: all the
\* regions added while they are at most 200, and else the 200 added last, in
\* the order of their addition; a call appends its region and, when that makes
\* 201, drops the oldest.
C26_ExploredRegionCap ==
  /\ [](Len(store.exploredRegions) <= 200)
  /\ [](LET regions == store.exploredRegions
            dropped == IF edits > 200 THEN edits - 200 ELSE 0
        IN  /\ Len(regions) = edits - dropped
            /\ \A k \in 1 .. Len(regions) : regions[k] = dropped + k)
  /\ [][ storeCalled'.name = "addExploredRegion" =>
           LET before == store.exploredRegions
               after == store'.exploredRegions
           IN  /\ after[Len(after)] = edits'
               /\ IF Len(before) < 200
                  THEN SubSeq(after, 1, Len(after) - 1) = before
                  ELSE SubSeq(after, 1, Len(after) - 1) = Tail(before) ]_vars

C26_Witness ==
  /\ storeCalled.name = "addExploredRegion"
  /\ edits = 202
  /\ Len(store.exploredRegions) = 200
  /\ store.exploredRegions[1] = 3
  /\ store.exploredRegions[200] = 202

(* CanvasManager *)

\* The Stage handles a release: a mouse-up or a mouse-leave.
Release == mouseEvent' \in {"mouseup", "mouseleave"}

\* The release ends a gesture begun by a mouse-down with the tool t, which has
\* been the tool ever since.
ReleaseOf(t) == Release /\ gesture.held /\ gesture.tool = t

\* C27: with the tool 'marker' or 'eraser', a mouse-down, one or more
\* mouse-moves and then a mouse-up or a mouse-leave add exactly one Drawing to
\* the store and clear the preview line; the Drawing is added at the release
\* and not before; a mouse-down and a release with no move between them add
\* nothing; and with the tool 'select' no mouse event adds a Drawing.
C27_StrokeCommit ==
  /\ [][ ((ReleaseOf("marker") \/ ReleaseOf("eraser")) /\ gesture.moves >= 1) =>
           /\ Len(store'.drawings) = Len(store.drawings) + 1
           /\ tempLine' = NoLine ]_vars
  /\ [][ ~Release => store'.drawings = store.drawings ]_vars
  /\ [][ ((ReleaseOf("marker") \/ ReleaseOf("eraser")) /\ gesture.moves = 0) =>
           store'.drawings = store.drawings ]_vars
  /\ [][ tool = "select" => store'.drawings = store.drawings ]_vars

====
